---- MODULE Spec2Model ----
(***************************************************************************)
(* A model of next-yate-compat (src/index.js): the Engine facade's debug   *)
(* and alarm state, the Message adapter, the dump_r/dump_t capture bridge  *)
(* and Engine.replaceParams.                                               *)
(***************************************************************************)
EXTENDS Integers, Sequences, FiniteSets, TLC

(***************************************************************************)
(* JavaScript values.  A number is kept as twice its value, so that the    *)
(* halves between the integers (-0.5, 10.5, ...) are values too; NaN is a  *)
(* number whose comparisons are all false.                                 *)
(***************************************************************************)
Undefined == [type |-> "undefined", twice |-> 0, nan |-> FALSE, str |-> "", bool |-> FALSE]

Num2(t) == [type |-> "number", twice |-> t, nan |-> FALSE, str |-> "", bool |-> FALSE]

Num(i) == Num2(2 * i)

NaN == [type |-> "number", twice |-> 0, nan |-> TRUE, str |-> "", bool |-> FALSE]

Str(s) == [type |-> "string", twice |-> 0, nan |-> FALSE, str |-> s, bool |-> FALSE]

Bool(b) == [type |-> "boolean", twice |-> 0, nan |-> FALSE, str |-> "", bool |-> b]

typeof(v) == v.type

\* a > b and a >= b and a < b on two numbers
Gt(a, b) == ~a.nan /\ ~b.nan /\ a.twice > b.twice

Ge(a, b) == ~a.nan /\ ~b.nan /\ a.twice >= b.twice

Lt(a, b) == ~a.nan /\ ~b.nan /\ a.twice < b.twice

IsInteger(v) == v.type = "number" /\ ~v.nan /\ v.twice % 2 = 0

(***************************************************************************)
(* Bounds of the model.                                                    *)
(***************************************************************************)
\* outputs recorded before the output operations stop
MaxOutputs == 1

\* numeric arguments lie within this many halves of the edges -1, 0, 10, 11
EdgeHalves == 1

(***************************************************************************)
(* The arguments the operations are called with.                           *)
(***************************************************************************)
Numbers ==
    {Num2(t) : t \in ((-2 - EdgeHalves)..(0 + EdgeHalves))
                     \cup ((20 - EdgeHalves)..(22 + EdgeHalves))}
        \cup {Num(8), NaN}

Names == {"yate", "x"}

Values == Numbers \cup {Str("x"), Bool(TRUE), Bool(FALSE), Undefined}

\* alarm's two call shapes: (level, ...args) with a first argument that is or
\* is not a number, and (label, level, ...args)
AlarmCalls ==
    {<<level, arg0>> : level \in Values, arg0 \in {Undefined, Num(8)}}
        \cup {<<Str("x"), level>> : level \in Values}

(***************************************************************************)
(* Engine: the severity table, Engine[level] of a number.                  *)
(***************************************************************************)
SeverityName(i) ==
    CASE i = 0 -> "FAIL" [] i = 1 -> "TEST" [] i = 2 -> "CRIT" [] i = 3 -> "CONF"
      [] i = 4 -> "STUB" [] i = 5 -> "WARN" [] i = 6 -> "MILD" [] i = 7 -> "NOTE"
      [] i = 8 -> "CALL" [] i = 9 -> "INFO" [] i = 10 -> "ALL"

EngineAt(level) ==
    IF IsInteger(level) /\ level.twice \div 2 \in 0..10
    THEN SeverityName(level.twice \div 2)
    ELSE "undefined"

VARIABLES
    debugLevel_,    \* Engine._debugLevel
    debugName_,     \* Engine._debugName
    debug_,         \* Engine._debug
    outputs,        \* the calls of _yate.output, each the tag it was given
    last,           \* the last Engine call: its name, arguments and return value
    objects,        \* the heap: the objects the Message constructor has made
    trackname_,     \* _yate._trackname
    setlocalQ,      \* the set-local requests of the client not yet answered
    history,        \* what the client was asked and what it answered, in order
    listeners,      \* the "dump" listeners of the capture stream, in order
    stream,         \* the writes the capture stream has not signalled yet
    promises,       \* the promises dump_r and dump_t returned
    signals,        \* the "dump" signals raised, each with the listeners it called
    buf,            \* replaceParams: the template, a sequence of characters
    parts,          \* the literals and placeholders buf was built from, if it was
    params,         \* replaceParams: the own properties of params
    result,         \* what replaceParams returned
    returned        \* whether replaceParams has returned

engineVars == <<debugLevel_, debugName_, debug_, outputs, last>>

messageVars == <<objects, trackname_, setlocalQ, history>>

dumpVars == <<listeners, stream, promises, signals>>

templateVars == <<buf, parts, params, result, returned>>

vars == <<engineVars, messageVars, dumpVars, templateVars>>

\* what the operations of one component leave alone
notEngine == <<messageVars, dumpVars, templateVars>>

notMessage == <<engineVars, dumpVars, templateVars>>

notDump == <<engineVars, messageVars, templateVars>>

notTemplate == <<engineVars, messageVars, dumpVars>>

Call(op, a, b, ret) == [op |-> op, a |-> a, b |-> b, ret |-> ret]

\* the client's track name when getEngine runs
InitialTrackName == "yate"

InitEngine ==
    /\ debugLevel_ = Num(8)
    /\ debugName_ = InitialTrackName
    /\ debug_ = TRUE
    /\ outputs = <<>>
    /\ last = Call("getEngine", Undefined, Undefined, Undefined)

InitMessage ==
    /\ objects = <<>>
    /\ trackname_ = InitialTrackName
    /\ setlocalQ = <<>>
    /\ history = <<>>

\* new DumpStream(), new Console(_dstream)
InitDump ==
    /\ listeners = <<>>
    /\ stream = <<>>
    /\ promises = <<>>
    /\ signals = <<>>

\* no call of replaceParams
NoTemplate ==
    /\ buf = <<>>
    /\ parts = <<>>
    /\ params = <<>>
    /\ result = <<>>
    /\ returned = FALSE

Init == InitEngine /\ InitMessage /\ InitDump /\ NoTemplate

\* `<${Engine._debugName}:${Engine[level]}>`
Tag(level) == [name |-> debugName_, severity |-> EngineAt(level)]

\* Engine.output = (...args) => _yate.output(...args)
output(line) == outputs' = Append(outputs, line)

EngineOutput ==
    /\ Len(outputs) < MaxOutputs
    /\ output([name |-> "", severity |-> ""])
    /\ last' = Call("output", Undefined, Undefined, Undefined)
    /\ UNCHANGED <<debugLevel_, debugName_, debug_, notEngine>>

DebugGate(level) ==
    /\ typeof(level) = "number"
    /\ Gt(level, Num(-1))
    /\ debug_
    /\ Ge(debugLevel_, level)

debug(level) ==
    /\ DebugGate(level) => Len(outputs) < MaxOutputs
    /\ IF DebugGate(level) THEN output(Tag(level)) ELSE UNCHANGED outputs
    /\ last' = Call("debug", level, Undefined, Undefined)
    /\ UNCHANGED <<debugLevel_, debugName_, debug_, notEngine>>

\* the level alarm tests after its first two statements
AlarmLevel(level, arg0) ==
    IF typeof(level) = "string" /\ typeof(arg0) = "number" THEN arg0 ELSE level

AlarmGate(level) ==
    /\ typeof(level) = "number"
    /\ Gt(level, Num(-1))
    /\ Lt(level, Num(11))

alarm(level, arg0) ==
    /\ AlarmGate(AlarmLevel(level, arg0)) => Len(outputs) < MaxOutputs
    /\ IF AlarmGate(AlarmLevel(level, arg0))
       THEN output(Tag(AlarmLevel(level, arg0)))
       ELSE UNCHANGED outputs
    /\ last' = Call("alarm", level, arg0, Undefined)
    /\ UNCHANGED <<debugLevel_, debugName_, debug_, notEngine>>

debugName(name) ==
    /\ IF typeof(name) = "string"
       THEN /\ debugName_' = name.str
            /\ last' = Call("debugName", name, Undefined, Undefined)
       ELSE /\ UNCHANGED debugName_
            /\ last' = Call("debugName", name, Undefined, Str(debugName_))
    /\ UNCHANGED <<debugLevel_, debug_, outputs, notEngine>>

debugLevel(level) ==
    /\ IF typeof(level) = "number"
       THEN /\ debugLevel_' = level
            /\ last' = Call("debugLevel", level, Undefined, Undefined)
       ELSE /\ UNCHANGED debugLevel_
            /\ last' = Call("debugLevel", level, Undefined, debugLevel_)
    /\ UNCHANGED <<debugName_, debug_, outputs, notEngine>>

\* `typeof level` in debugEnabled(value): no enclosing scope declares `level`
TypeofLevelInDebugEnabled == "undefined"

debugEnabled(value) ==
    /\ IF TypeofLevelInDebugEnabled = "boolean"
       THEN /\ debug_' = value.bool
            /\ last' = Call("debugEnabled", value, Undefined, Undefined)
       ELSE /\ UNCHANGED debug_
            /\ last' = Call("debugEnabled", value, Undefined, Bool(debug_))
    /\ UNCHANGED <<debugLevel_, debugName_, outputs, notEngine>>

setDebug(command) ==
    /\ IF typeof(command) = "boolean"
       THEN debug_' = command.bool
       ELSE UNCHANGED debug_
    /\ last' = Call("setDebug", command, Undefined, Undefined)
    /\ UNCHANGED <<debugLevel_, debugName_, outputs, notEngine>>

NextEngine ==
    \/ EngineOutput
    \/ \E level \in Values : debug(level)
    \/ \E c \in AlarmCalls : alarm(c[1], c[2])
    \/ \E name \in {Str(n) : n \in Names} \cup {Undefined} : debugName(name)
    \/ \E level \in Values : debugLevel(level)
    \/ \E value \in Values : debugEnabled(value)
    \/ \E command \in Values : setDebug(command)

SpecEngine == Init /\ [][NextEngine]_vars

(***************************************************************************)
(* The claims about the Engine's debug state.                              *)
(***************************************************************************)
\* level is a number >= 0 and level <= the configured level
ClaimedDebugGate(level) ==
    /\ typeof(level) = "number"
    /\ Ge(level, Num(0))
    /\ debug_
    /\ Ge(debugLevel_, level)

\* C2: Engine.debug(level) calls the output operation exactly once when level
\* is a number >= 0, the enabled flag is true and level <= the configured
\* level, and in every other case (among them every call made while the flag
\* is false) it produces no output and changes no state.
C2_DebugOutputsOnlyThroughGate ==
    [][\A level \in Values :
          debug(level) =>
              IF ClaimedDebugGate(level)
              THEN Len(outputs') = Len(outputs) + 1
              ELSE UNCHANGED <<outputs, debugLevel_, debugName_, debug_>>]_vars

\* the level the claim gives each of alarm's call shapes
ClaimedAlarmLevel(level, arg0) ==
    IF typeof(level) = "string" /\ typeof(arg0) = "number" THEN arg0 ELSE level

\* C3: Engine.alarm produces output whenever the effective level is a number
\* with 0 <= level <= 10, whatever the enabled flag and the configured level
\* are and in both call shapes, and produces no output for any other level.
C3_AlarmOutputsIffLevelInRange ==
    [][\A c \in AlarmCalls :
          alarm(c[1], c[2]) =>
              LET level == ClaimedAlarmLevel(c[1], c[2])
              IN  IF /\ typeof(level) = "number"
                     /\ Ge(level, Num(0))
                     /\ Ge(Num(10), level)
                  THEN Len(outputs') = Len(outputs) + 1
                  ELSE UNCHANGED outputs]_vars

\* C4: debugEnabled(b) with a boolean b sets the enabled flag to b and returns
\* nothing, so that a following debugEnabled() returns b; debugEnabled() with
\* no argument returns the flag and leaves the state unchanged.
C4_DebugEnabledSetsAndGets ==
    [][\A value \in Values :
          debugEnabled(value) =>
              IF typeof(value) = "boolean"
              THEN debug_' = value.bool /\ last'.ret = Undefined
              ELSE last'.ret = Bool(debug_) /\ UNCHANGED debug_]_vars

\* C5: in every reachable state the configured debug level is one of the
\* eleven severities, an integer in 0..10.
C5_LevelIsASeverity == debugLevel_ \in {Num(i) : i \in 0..10}

(***************************************************************************)
(* Message: the constructor, enqueue, dispatch and trackName, and the      *)
(* client they delegate to.                                                *)
(***************************************************************************)
\* constructor calls
MaxMessages == 2

\* requests and answers recorded before the client stops
MaxEvents == 4

MessageNames == {"call.route"}

ParamValues == {"", "1"}

TrackNames == {"x", "y"}

\* no object: `this` of a function called without `new` in strict mode
NoObject == 0

Object(kind, name, called, this) ==
    [kind |-> kind, name |-> name, called |-> called, this |-> this]

Event(ev, name, caller, obj, tag) ==
    [ev |-> ev, name |-> name, caller |-> caller, obj |-> obj, tag |-> tag]

Messages == {m \in 1..Len(objects) : objects[m].kind = "YateMessage"}

\* new Message(name, broadcast, params): `this` is a fresh object, and the
\* YateMessage the constructor returns is another one
NewMessage(name, called) ==
    /\ Cardinality(Messages) < MaxMessages
    /\ objects' = objects \o
            << Object("Object", "", "", NoObject),
               Object("YateMessage", name, called, Len(objects) + 1) >>
    /\ UNCHANGED <<trackname_, setlocalQ, history, notMessage>>

\* Message(name, broadcast, params), called as a function
CallMessage(name, called) ==
    /\ Cardinality(Messages) < MaxMessages
    /\ objects' = Append(objects, Object("YateMessage", name, called, NoObject))
    /\ UNCHANGED <<trackname_, setlocalQ, history, notMessage>>

\* the caller sets a parameter of a message it holds
setParam(m, value) ==
    /\ objects[m].called # value
    /\ objects' = [objects EXCEPT ![m].called = value]
    /\ UNCHANGED <<trackname_, setlocalQ, history, notMessage>>

\* the client's send path: the object handed over, tagged with the track name
Submit(via, caller, obj) ==
    /\ Len(history) < MaxEvents
    /\ history' = Append(history, Event(via, "", caller, obj, trackname_))

\* the object `this` names in the arrow function message.enqueue
EnqueueThis(m) == objects[m].this

\* message.enqueue = () => _yate.enqueue(this)
enqueue(m) ==
    /\ Submit("enqueue", m, EnqueueThis(m))
    /\ UNCHANGED <<objects, trackname_, setlocalQ, notMessage>>

\* message.dispatch = async function() { return _yate.dispatch(this) },
\* called as m.dispatch()
dispatch(m) ==
    /\ Submit("dispatch", m, m)
    /\ UNCHANGED <<objects, trackname_, setlocalQ, notMessage>>

\* trackName with the assignment made at once instead of in the callback
trackNameAtOnce(arg) ==
    /\ Len(history) < MaxEvents
    /\ trackname_' = arg
    /\ setlocalQ' = Append(setlocalQ, arg)
    /\ history' = Append(history, Event("trackName", arg, NoObject, NoObject, trackname_))
    /\ UNCHANGED <<objects, notMessage>>

\* Message.trackName = (arg) => { _yate.setlocal(callback, "trackparam", arg) }
trackName(arg) ==
    /\ Len(history) < MaxEvents
    /\ setlocalQ' = Append(setlocalQ, arg)
    /\ history' = Append(history, Event("trackName", arg, NoObject, NoObject, trackname_))
    /\ UNCHANGED <<objects, trackname_, notMessage>>

\* the callback trackName gives to setlocal: () => { _yate._trackname = arg }
TrackNameCallback(arg) == trackname_' = arg

\* the client has the answer to its oldest set-local request and calls back
SetlocalAnswer ==
    /\ setlocalQ # <<>>
    /\ Len(history) < MaxEvents
    /\ TrackNameCallback(Head(setlocalQ))
    /\ setlocalQ' = Tail(setlocalQ)
    /\ history' = Append(history,
            Event("answer", Head(setlocalQ), NoObject, NoObject, Head(setlocalQ)))
    /\ UNCHANGED <<objects, notMessage>>

NextMessage ==
    \/ \E name \in MessageNames : NewMessage(name, "")
    \/ \E name \in MessageNames : CallMessage(name, "")
    \/ \E m \in Messages, value \in ParamValues : setParam(m, value)
    \/ \E m \in Messages : enqueue(m)
    \/ \E m \in Messages : dispatch(m)
    \/ \E arg \in TrackNames : trackName(arg)
    \/ SetlocalAnswer

SpecMessage == Init /\ [][NextMessage]_vars

(***************************************************************************)
(* The claims about the Message adapter.                                   *)
(***************************************************************************)
Submissions == {i \in 1..Len(history) : history[i].ev \in {"enqueue", "dispatch"}}

\* the last event of one kind before the i-th, or 0
LastBefore(ev, i) ==
    LET S == {j \in 1..(i - 1) : history[j].ev = ev}
    IN  IF S = {} THEN 0 ELSE CHOOSE j \in S : \A k \in S : k <= j

\* C1: enqueue() on a message the constructor returned hands that very
\* message object to the client's enqueue operation.
C1_EnqueueHandsOverTheMessage ==
    \A i \in 1..Len(history) :
        history[i].ev = "enqueue" => history[i].obj = history[i].caller

MaxDumps == 3

DumpArgs == {"a", "b", "rows"}

\* the arguments console.table lays out as a table; it logs the others
Tabular == {"rows"}

\* what _dconsole.log(arg) and _dconsole.table(arg) write
Render(method, arg) ==
    [layout |-> IF method = "table" /\ arg \in Tabular THEN "table" ELSE "log",
     data |-> arg]

\* the text of a write with the number of the write
Payload(text, write) == [layout |-> text.layout, data |-> text.data, write |-> write]

NoPayload == [layout |-> "", data |-> "", write |-> 0]

Listener(p, o) == [promise |-> p, once |-> o]

\* a listener that stays attached after it was called
onPersistent(ls, p) == Append(ls, Listener(p, FALSE))

\* a one-shot listener put before the registered ones
prependOnce(ls, p) == <<Listener(p, TRUE)>> \o ls

\* _dstream.once("dump", resolve)
once(ls, p) == Append(ls, Listener(p, TRUE))

\* resolve(payload) of promise p; a settled promise stays as it is
resolve(ps, p, payload) ==
    IF ps[p].state = "pending"
    THEN [ps EXCEPT ![p] = [@ EXCEPT !.state = "resolved", !.value = payload]]
    ELSE ps

RECURSIVE ResolveEach(_, _, _)
ResolveEach(ps, ls, payload) ==
    IF ls = <<>> THEN ps
    ELSE ResolveEach(resolve(ps, Head(ls).promise, payload), Tail(ls), payload)

\* the stream raises "dump": the listeners are called in the order they were
\* registered, each with the payload, and the one-shot ones are detached
Emit(ls, ps, payload) ==
    [listeners |-> SelectSeq(ls, LAMBDA l : ~l.once),
     promises |-> ResolveEach(ps, ls, payload),
     signal |-> [payload |-> payload, called |-> [i \in 1..Len(ls) |-> ls[i].promise]]]

\* the promise a dump call returns, as its executor finds it
Pending(payload) ==
    [own |-> payload, state |-> "pending", value |-> NoPayload, armed |-> Len(signals)]

\* the capture stream takes a write: with no write waiting it may signal
\* inside the write (sync), otherwise it signals later, in the order written
Write(ls, ps, payload, sync) ==
    IF sync
    THEN /\ listeners' = Emit(ls, ps, payload).listeners
         /\ promises' = Emit(ls, ps, payload).promises
         /\ signals' = Append(signals, Emit(ls, ps, payload).signal)
         /\ UNCHANGED stream
    ELSE /\ listeners' = ls
         /\ promises' = ps
         /\ stream' = Append(stream, payload)
         /\ UNCHANGED signals

\* return new Promise(resolve => { _dstream.once("dump", resolve);
\*                                 _dconsole.log(...args) })
dump_r(arg, sync) ==
    LET p == Len(promises) + 1
        payload == Payload(Render("log", arg), p)
    IN  /\ p <= MaxDumps
        /\ sync => stream = <<>>
        /\ Write(once(listeners, p), Append(promises, Pending(payload)), payload, sync)
        /\ UNCHANGED notDump

\* return new Promise(resolve => { _dstream.once("dump", resolve);
\*                                 _dconsole.table(...args) })
dump_t(arg, sync) ==
    LET p == Len(promises) + 1
        payload == Payload(Render("table", arg), p)
    IN  /\ p <= MaxDumps
        /\ sync => stream = <<>>
        /\ Write(once(listeners, p), Append(promises, Pending(payload)), payload, sync)
        /\ UNCHANGED notDump

\* the capture stream raises the completion signal of its oldest write
Signal ==
    /\ stream # <<>>
    /\ LET e == Emit(listeners, promises, Head(stream))
       IN  /\ listeners' = e.listeners
           /\ promises' = e.promises
           /\ signals' = Append(signals, e.signal)
    /\ stream' = Tail(stream)
    /\ UNCHANGED notDump

AllResolved == \A p \in 1..Len(promises) : promises[p].state = "resolved"

NextDump ==
    \/ \E arg \in DumpArgs, sync \in BOOLEAN : dump_r(arg, sync)
    \/ \E arg \in DumpArgs, sync \in BOOLEAN : dump_t(arg, sync)
    \/ Signal

\* dump calls issued at any time
SpecDump == Init /\ [][NextDump]_vars /\ WF_vars(Signal)

\* the caller awaits each dump call before it issues the next
NextDumpSerial ==
    \/ \E arg \in DumpArgs, sync \in BOOLEAN : AllResolved /\ dump_r(arg, sync)
    \/ \E arg \in DumpArgs, sync \in BOOLEAN : AllResolved /\ dump_t(arg, sync)
    \/ Signal

SpecDumpSerial == Init /\ [][NextDumpSerial]_vars /\ WF_vars(Signal)

(***************************************************************************)
(* The claims about the capture bridge.                                    *)
(***************************************************************************)
Attached(p) == \E i \in 1..Len(listeners) : listeners[i].promise = p

\* C6: with the dump calls serialized, every call eventually resolves, with
\* the payload of the signal raised for its own write, and once it has
\* resolved no dump listener remains attached.
C6_SerializedDumpsPairUp ==
    /\ [](\A p \in 1..Len(promises) :
            promises[p].state = "resolved" =>
                promises[p].value = promises[p].own /\ ~Attached(p))
    /\ [](AllResolved => listeners = <<>>)
    /\ \A p \in 1..MaxDumps :
            [](Len(promises) >= p =>
                <>(Len(promises) >= p /\ promises[p].state = "resolved"))

\* two awaited calls, each resolved with the payload of its own write
C6_Witness ==
    /\ Len(promises) = 2
    /\ promises[1].armed = 0
    /\ promises[2].armed = 1
    /\ AllResolved
    /\ Len(signals) = 2
    /\ promises[1].value = promises[1].own
    /\ promises[2].value = promises[2].own
    /\ promises[1].value.data # promises[2].value.data

\* listeners p < q armed with no signal raised between them
Raced(p, q) ==
    /\ p < q
    /\ q <= Len(promises)
    /\ promises[p].armed = promises[q].armed

Position(seq, x) == CHOOSE i \in 1..Len(seq) : seq[i] = x

InSeq(seq, x) == \E i \in 1..Len(seq) : seq[i] = x

\* C7: when a second dump call is issued before the first call's signal has
\* fired, the next signal resolves both listeners with the same payload, the
\* first-registered first, no later signal finds one of them, and neither
\* promise stays pending forever.
C7_RacingDumpsShareOneSignal ==
    /\ [](\A p, q \in 1..Len(promises) :
            (Raced(p, q) /\ Len(signals) > promises[p].armed) =>
                LET s == signals[promises[p].armed + 1]
                IN  /\ InSeq(s.called, p) /\ InSeq(s.called, q)
                    /\ Position(s.called, p) < Position(s.called, q)
                    /\ promises[p].state = "resolved"
                    /\ promises[q].state = "resolved"
                    /\ promises[p].value = s.payload
                    /\ promises[q].value = s.payload
                    /\ \A k \in (promises[p].armed + 2)..Len(signals) :
                          ~InSeq(signals[k].called, p) /\ ~InSeq(signals[k].called, q))
    /\ [](Len(promises) = 2 /\ Raced(1, 2) /\ Len(signals) = 2 =>
            signals[2].called = <<>>)
    /\ \A p \in 1..MaxDumps :
            [](Len(promises) >= p =>
                <>(Len(promises) >= p /\ promises[p].state = "resolved"))

\* two racing calls, both resolved by the first signal; the second finds none
C7_Witness ==
    /\ Len(promises) = 2
    /\ Raced(1, 2)
    /\ Len(signals) = 2
    /\ signals[1].called = <<1, 2>>
    /\ signals[2].called = <<>>
    /\ promises[1].value = promises[2].value
    /\ promises[2].value # promises[2].own

(***************************************************************************)
(* Engine.replaceParams.  A string is a sequence of characters; none of    *)
(* the characters here is a line terminator.                               *)
(***************************************************************************)
\* characters of a template given as a string
MaxLen == 4

\* literals and placeholders of a template built from parts
MaxParts == 3

Alphabet == {"$", "{", "}", "a"}

Special == {"$", "{", "}"}

\* the properties every object literal inherits (two of them here), each a
\* function, written as join("") writes it
ObjectPrototype ==
    (<<"v", "a", "l", "u", "e", "O", "f">> :> <<"f", "u", "n", "c", "t", "i", "o", "n", " ", "v", "a", "l", "u", "e", "O", "f", "(", ")", " ", "{", " ", "[", "n", "a", "t", "i", "v", "e", " ", "c", "o", "d", "e", "]", " ", "}">>) @@ (<<"t", "o", "S", "t", "r", "i", "n", "g">> :> <<"f", "u", "n", "c", "t", "i", "o", "n", " ", "t", "o", "S", "t", "r", "i", "n", "g", "(", ")", " ", "{", " ", "[", "n", "a", "t", "i", "v", "e", " ", "c", "o", "d", "e", "]", " ", "}">>)

RECURSIVE RunLength(_, _)
\* the characters from s[i] on that [^\$\{\}]+ takes
RunLength(s, i) ==
    IF i <= Len(s) /\ s[i] \notin Special THEN 1 + RunLength(s, i + 1) ELSE 0

\* /(\$\{[^\$\{\}]+\})/ tried at s[q]: the index after the match, or 0
MatchAt(s, q) ==
    LET r == RunLength(s, q + 2)
    IN  IF /\ q + 1 <= Len(s)
           /\ s[q] = "$"
           /\ s[q + 1] = "{"
           /\ r >= 1
           /\ q + 2 + r <= Len(s)
           /\ s[q + 2 + r] = "}"
        THEN q + 3 + r
        ELSE 0

RECURSIVE SplitFrom(_, _, _, _)
\* buf.split(/(\$\{[^\$\{\}]+\})/): p starts the piece being cut, q scans
SplitFrom(s, p, q, acc) ==
    IF q > Len(s) THEN Append(acc, SubSeq(s, p, Len(s)))
    ELSE IF MatchAt(s, q) = 0 THEN SplitFrom(s, p, q + 1, acc)
    ELSE SplitFrom(s, MatchAt(s, q), MatchAt(s, q),
                   acc \o <<SubSeq(s, p, q - 1), SubSeq(s, q, MatchAt(s, q) - 1)>>)

split(s) == SplitFrom(s, 1, 1, <<>>)

\* str[i].match(/\$\{(.+)\}/): the first "${" that a "}" follows after at
\* least one character, and the group up to the last "}" of the segment
match(seg) ==
    LET Closers(i) == {j \in (i + 3)..Len(seg) : seg[j] = "}"}
        Starts == {i \in 1..(Len(seg) - 1) :
                      seg[i] = "$" /\ seg[i + 1] = "{" /\ Closers(i) # {}}
        first == CHOOSE i \in Starts : \A k \in Starts : i <= k
        close == CHOOSE j \in Closers(first) : \A k \in Closers(first) : k <= j
    IN  IF Starts = {} THEN [null |-> TRUE, key |-> <<>>]
        ELSE [null |-> FALSE, key |-> SubSeq(seg, first + 2, close - 1)]

\* key in params: an own property or an inherited one
in(key, ps) == key \in DOMAIN ps \/ key \in DOMAIN ObjectPrototype

\* params[key]
get(key, ps) == IF key \in DOMAIN ps THEN ps[key] ELSE ObjectPrototype[key]

RECURSIVE pushAll(_, _, _)
\* the for loop over the segments, from the first of str
pushAll(str, ps, res) ==
    IF str = <<>> THEN res
    ELSE LET key == match(Head(str))
         IN  pushAll(Tail(str), ps,
                 IF ~key.null
                 THEN IF in(key.key, ps) THEN Append(res, get(key.key, ps)) ELSE res
                 ELSE Append(res, Head(str)))

RECURSIVE join(_)
join(res) == IF res = <<>> THEN <<>> ELSE Head(res) \o join(Tail(res))

replaceParams(b, ps) == join(pushAll(split(b), ps, <<>>))

RECURSIVE StringsUpTo(_)
StringsUpTo(n) ==
    IF n = 0 THEN {<<>>}
    ELSE StringsUpTo(n - 1)
            \cup {Append(s, c) : s \in {t \in StringsUpTo(n - 1) : Len(t) = n - 1},
                                 c \in Alphabet}

Literal(text) == [kind |-> "literal", text |-> text]

Placeholder(id) == [kind |-> "placeholder", text |-> id]

PartChoices ==
    {Literal(<<>>), Literal(<<"a">>),
     Placeholder(<<"a">>), Placeholder(<<"b">>), Placeholder(<<"v", "a", "l", "u", "e", "O", "f">>)}

RECURSIVE PartsUpTo(_)
PartsUpTo(n) ==
    IF n = 0 THEN {<<>>}
    ELSE PartsUpTo(n - 1)
            \cup {Append(s, c) : s \in {t \in PartsUpTo(n - 1) : Len(t) = n - 1},
                                 c \in PartChoices}

\* the text of a part: a literal as it is, a placeholder as ${id}
PartText(part) ==
    IF part.kind = "literal" THEN part.text ELSE <<"$", "{">> \o part.text \o <<"}">>

RECURSIVE Build(_)
Build(ps) == IF ps = <<>> THEN <<>> ELSE PartText(Head(ps)) \o Build(Tail(ps))

ParamKeys == {<<"a">>, <<"b">>}

ParamTexts == {<<"1">>, <<"2", "2">>}

\* the params objects: own properties only, from object literals
ParamObjects == UNION {[K -> ParamTexts] : K \in SUBSET ParamKeys}

\* a call of replaceParams about to be made
InitTemplate ==
    /\ InitEngine
    /\ InitMessage
    /\ InitDump
    /\ \/ buf \in StringsUpTo(MaxLen) /\ parts = <<>>
       \/ parts \in PartsUpTo(MaxParts) \ {<<>>} /\ buf = Build(parts)
    /\ params \in ParamObjects
    /\ result = <<>>
    /\ returned = FALSE

ReplaceParams ==
    /\ ~returned
    /\ result' = replaceParams(buf, params)
    /\ returned' = TRUE
    /\ UNCHANGED <<buf, parts, params, notTemplate>>

NextTemplate == ReplaceParams

SpecTemplate == InitTemplate /\ [][NextTemplate]_vars

(***************************************************************************)
(* The claims about replaceParams.                                         *)
(***************************************************************************)
\* s[q..e] is ${identifier} with a non-empty identifier free of $, { and }
IsPlaceholder(s, q, e) ==
    /\ e >= q + 3
    /\ s[q] = "$"
    /\ s[q + 1] = "{"
    /\ s[e] = "}"
    /\ \A k \in (q + 2)..(e - 1) : s[k] \notin Special

ZeroPlaceholders(s) == \A q \in 1..Len(s), e \in 1..Len(s) : ~IsPlaceholder(s, q, e)

\* C9: for every template s with zero placeholders, stray $, { and } or
\* not, replaceParams(s, {}) returns s unchanged.
C9_NoPlaceholderNoChange ==
    (returned /\ DOMAIN params = {} /\ ZeroPlaceholders(buf)) => result = buf

RECURSIVE Expected(_, _)
\* the literals verbatim, the value of each placeholder whose id is a key of
\* params, nothing for the others
Expected(ps, map) ==
    IF ps = <<>> THEN <<>>
    ELSE (IF Head(ps).kind = "literal" THEN Head(ps).text
          ELSE IF Head(ps).text \in DOMAIN map THEN map[Head(ps).text]
          ELSE <<>>) \o Expected(Tail(ps), map)

\* C10: for every template built from literal segments and placeholders and
\* every params mapping, replaceParams returns the literals verbatim, the
\* mapped value of each placeholder whose id is a key and nothing for each
\* placeholder whose id is absent.
C10_SubstitutesEveryPlaceholder ==
    (returned /\ parts # <<>>) => result = Expected(parts, params)

====
